---- MODULE Spec2Model ----
(***************************************************************************)
(* OmeZarrTileSource (src/src/utils/omeZarrTileSource.js): a tile source   *)
(* that serves an OME-Zarr pyramid to a pan/zoom engine.  The adapter's    *)
(* fields, its initialization, and the asynchronous resolution of tile     *)
(* requests (cache lookup, level inversion, region read, rasterization,    *)
(* FIFO cache insert, image decode) are modelled from the source.          *)
(***************************************************************************)
EXTENDS Integers, Sequences, FiniteSets, Bags, TLC

VARIABLES
    store,         \* this.zarrUrl: the name of the remote OME-Zarr store
    optionsIn,     \* the options object passed to the constructor
    initPc,        \* position of initialize(): new, fetching, parsing, opening, ready,
                   \* failed
    metadata,      \* this.metadata: the descriptor last parsed, << >> before
    opened,        \* datasets the for-of loop of the running initialize() has handled
    initResults,   \* history: what each initialize() call settled with, in order
    zarrArrays,    \* this.zarrArrays: opened arrays, storage order (0 = finest)
    tileSource,    \* the object returned by createTileSource(), << >> before
    tileCache,     \* this.tileCache: a Map, as its entries in insertion order
    maxCacheSize,  \* this.maxCacheSize
    minValue,      \* this.minValue
    maxValue,      \* this.maxValue
    autoNormalize, \* this.autoNormalize
    reqs,          \* the tile requests issued so far (one per downloadTileStart), a bag
    inserted,      \* history: the keys passed to addToCache, in call order
    viewerPc,      \* the view's viewer: null, created, open, unmounted
    mouseNavEnabled, \* the engine's built-in mouse navigation (setMouseNavEnabled)
    viewCurrent,   \* the engine's view as displayed now (the springs' current values)
    viewTarget,    \* the view the engine is animating towards (the springs' targets)
    drawingOverlay, \* the handle returned by createDrawingOverlay(), "null" before
    overlayCanvas, \* the drawing canvas: its style and whether it is in the page
    liveStroke,    \* the stroke being drawn, << >> when null
    isPointerDown, \* true while a pointer button is held
    strokes,       \* strokes.value: the committed strokes, oldest first
    drawMode,      \* drawMode.value
    drawColor,     \* drawColor.value
    drawLineWidth, \* drawLineWidth.value
    pointerEvent,  \* the pointer event last dispatched to the canvas, << >> before
    dispatched,    \* how many pointer events were dispatched to the canvas
    roiList,       \* roiList.value: the ROIs, in the order they were added
    newRoi,        \* newRoi.value: the fields of the ROI form
    roiOverlay,    \* the handle returned by createRoiOverlay(), "null" before
    rois           \* the ROI overlay's rois: roiList's array itself or one of its own

\* the fields of the tile source adapter and its requests
tileSourceVars == <<store, optionsIn, initPc, metadata, opened, initResults,
                    zarrArrays, tileSource, tileCache, maxCacheSize, minValue,
                    maxValue, autoNormalize, reqs, inserted>>

\* the state of the view OpenSeadragonTest.vue and of its drawing overlay
viewVars == <<viewerPc, mouseNavEnabled, viewCurrent, viewTarget, drawingOverlay,
              overlayCanvas, liveStroke, isPointerDown, strokes, drawMode, drawColor,
              drawLineWidth, pointerEvent, dispatched, roiList, newRoi, roiOverlay,
              rois>>

vars == <<tileSourceVars, viewVars>>

initVars == <<initPc, metadata, opened, initResults>>

adapterVars == <<store, optionsIn, zarrArrays, tileSource, maxCacheSize, autoNormalize>>

-----------------------------------------------------------------------------
(* Bounds of the model *)

\* tile requests the engine issues in one run, any number of them in flight
MaxReq == 3
\* tile requests of a run in which the engine issues them one after another
MaxSeqReq == 1
\* the engine passes tile indices x, y in -1 .. MaxTileIndex
MaxTileIndex == 2
\* the engine passes levels in -1 .. MaxEngineLevel
MaxEngineLevel == 2
\* a configured options.maxCacheSize is in 1 .. MaxCapacity
MaxCapacity == 2
\* tile requests of a run that exercises the normalization
MaxNormReq == 2
\* calls of initialize() on one adapter
MaxInitCalls == 2

\* options.maxCacheSize || 100
DefaultMaxCacheSize == 100

-----------------------------------------------------------------------------
(* JavaScript values *)

\* a number, null, or +/-Infinity
Null == [k |-> "null", v |-> 0]
Num(n) == [k |-> "num", v |-> n]
PosInf == [k |-> "inf", v |-> 1]
NegInf == [k |-> "inf", v |-> -1]

\* truthiness of such a value: null and 0 are falsy
Truthy(a) == a.k = "inf" \/ (a.k = "num" /\ a.v # 0)

\* a || b
JsOr(a, b) == IF Truthy(a) THEN a ELSE b

\* s[i] of a JavaScript array held as a sequence
At(s, i) == s[i + 1]

Min2(a, b) == IF a < b THEN a ELSE b
Max2(a, b) == IF a > b THEN a ELSE b

DigitChars == <<"0", "1", "2", "3", "4", "5", "6", "7", "8", "9">>

RECURSIVE DecDigits(_)
\* the decimal digits of a natural number, as characters
DecDigits(n) ==
    IF n < 10 THEN <<DigitChars[n + 1]>>
    ELSE DecDigits(n \div 10) \o <<DigitChars[(n % 10) + 1]>>

\* String(n) of an integer, as its characters
NumToString(n) ==
    IF n < 0 THEN <<"-">> \o DecDigits(-n) ELSE DecDigits(n)

-----------------------------------------------------------------------------
(* The remote store *)

\* One stored array: shape [channels, height, width] or [height, width], its
\* chunk shape, and the samples of channel 0 by (row, col), a ramp
\* base + dr * row + dc * col.
StoredArray(hasChannels, h, w, ch, cw, base, dr, dc) ==
    [shape  |-> IF hasChannels THEN <<3, h, w>> ELSE <<h, w>>,
     chunks |-> IF hasChannels THEN <<1, ch, cw>> ELSE <<ch, cw>>,
     ramp   |-> <<base, dr, dc>>]

\* the sample a stored array holds at (row, col) of channel 0
SampleAt(array, row, col) ==
    array.ramp[1] + array.ramp[2] * row + array.ramp[3] * col

\* channel axis, 3x3 finest level in 2x2 chunks (edge tiles on both axes),
\* a 2x2 coarser level in one chunk
StoreA ==
    [name     |-> "A",
     datasets |-> <<"0", "1">>,
     arrays   |-> <<StoredArray(TRUE, 3, 3, 2, 2, 10, 10, 5),
                    StoredArray(TRUE, 2, 2, 2, 2, 12, 8, 4)>>]

\* no channel axis, chunk shape differs from level to level, samples <= 0
\* occur: the first tile of the finest level holds -1 and 0
StoreB ==
    [name     |-> "B",
     datasets |-> <<"s0", "s1">>,
     arrays   |-> <<StoredArray(FALSE, 2, 3, 1, 2, -1, 2, 1),
                    StoredArray(FALSE, 1, 2, 1, 1, -2, 0, 2)>>]

Stores == {StoreA, StoreB}

StoreNames == {st.name : st \in Stores}

\* the store behind a zarrUrl
StoreAt(name) == CHOOSE st \in Stores : st.name = name

-----------------------------------------------------------------------------
(* Tile cache: a Map in insertion order *)

\* `${level}-${x}-${y}`
CacheKey(level, x, y) ==
    NumToString(level) \o <<"-">> \o NumToString(x) \o <<"-">> \o NumToString(y)

\* a lookup that never finds the key
CacheHasNever(cache, key) == FALSE

\* Map.has
CacheHas(cache, key) == \E i \in DOMAIN cache : cache[i].key = key

\* Map.get of a key the map holds
CacheGet(cache, key) ==
    cache[CHOOSE i \in DOMAIN cache : cache[i].key = key].canvas

\* a set that leaves the value of an existing key as it is
MapSetKeepsFirst(cache, key, canvas) ==
    IF CacheHas(cache, key) THEN cache
    ELSE Append(cache, [key |-> key, canvas |-> canvas])

\* Map.set: an existing key keeps its place, a new key goes last
MapSet(cache, key, canvas) ==
    IF CacheHas(cache, key)
    THEN [i \in DOMAIN cache |->
            IF cache[i].key = key THEN [key |-> key, canvas |-> canvas] ELSE cache[i]]
    ELSE Append(cache, [key |-> key, canvas |-> canvas])

\* the keys of the map, in insertion order
CacheKeys(cache) == [i \in DOMAIN cache |-> cache[i].key]

\* addToCache without the size check
AddToCacheNoEvict(cache, capacity, key, canvas) == MapSet(cache, key, canvas)

\* addToCache dropping the newest entry instead of the oldest
AddToCacheEvictLast(cache, capacity, key, canvas) ==
    MapSet(IF Len(cache) >= capacity /\ Len(cache) > 0
           THEN SubSeq(cache, 1, Len(cache) - 1) ELSE cache,
           key, canvas)

\* addToCache that inserts nothing when the map is full
AddToCacheSkipsWhenFull(cache, capacity, key, canvas) ==
    IF Len(cache) >= capacity THEN cache ELSE MapSet(cache, key, canvas)

\* addToCache(key, canvas): drop the first key when the map is full, then set
AddToCache(cache, capacity, key, canvas) ==
    LET evicted == IF Len(cache) >= capacity /\ Len(cache) > 0
                   THEN Tail(cache) ELSE cache
    IN  MapSet(evicted, key, canvas)

-----------------------------------------------------------------------------
(* Region read *)

\* start and stop of a [start, stop] selection on an axis of length n, as the
\* array library normalizes slices: negative indices count from the end, both
\* ends are clamped to the axis, an inverted range selects nothing
SliceIndices(start, stop, n) ==
    LET norm(i) == IF i < 0 THEN Max2(i + n, 0) ELSE Min2(i, n)
        a == norm(start)
        b == norm(stop)
    IN  <<a, Max2(a, b)>>

\* array.get(selection): the selected samples of channel 0 with their shape
ArrayGet(array, rows, cols) ==
    LET hasChannels == Len(array.shape) = 3
        h  == IF hasChannels THEN At(array.shape, 1) ELSE At(array.shape, 0)
        w  == IF hasChannels THEN At(array.shape, 2) ELSE At(array.shape, 1)
        rs == SliceIndices(rows[1], rows[2], h)
        cs == SliceIndices(cols[1], cols[2], w)
        ah == rs[2] - rs[1]
        aw == cs[2] - cs[1]
    IN  [shape |-> <<ah, aw>>,
         data  |-> [p \in (0 .. ah - 1) \X (0 .. aw - 1) |->
                       SampleAt(array, rs[1] + p[1], cs[1] + p[2])]]

\* the inverted index forced into the range of the stored levels
ZarrLevelIndexClamped(arrays, level) ==
    Max2(0, Min2(Len(arrays) - 1, Len(arrays) - 1 - level))

\* the engine level used as the storage index, without inversion
ZarrLevelIndexNoInversion(arrays, level) == level

\* const zarrLevelIndex = this.zarrArrays.length - 1 - level
ZarrLevelIndex(arrays, level) == Len(arrays) - 1 - level

\* the selection without the clamp of its ends to the level's extent
TileSelectionUnclamped(array, x, y) ==
    LET hasChannels == Len(array.shape) = 3
        tileWidth  == IF hasChannels THEN At(array.chunks, 2) ELSE At(array.chunks, 1)
        tileHeight == IF hasChannels THEN At(array.chunks, 1) ELSE At(array.chunks, 0)
    IN  [channel |-> IF hasChannels THEN <<0>> ELSE << >>,
         rows |-> <<y * tileHeight, y * tileHeight + tileHeight>>,
         cols |-> <<x * tileWidth, x * tileWidth + tileWidth>>,
         tileWidth |-> tileWidth,
         tileHeight |-> tileHeight]

\* the selection getTileImage builds for tile (x, y) of a stored array
TileSelection(array, x, y) ==
    LET hasChannels == Len(array.shape) = 3
        tileWidth  == IF hasChannels THEN At(array.chunks, 2) ELSE At(array.chunks, 1)
        tileHeight == IF hasChannels THEN At(array.chunks, 1) ELSE At(array.chunks, 0)
        yStart == y * tileHeight
        xStart == x * tileWidth
        yEnd == IF hasChannels THEN Min2(yStart + tileHeight, At(array.shape, 1))
                ELSE Min2(yStart + tileHeight, At(array.shape, 0))
        xEnd == IF hasChannels THEN Min2(xStart + tileWidth, At(array.shape, 2))
                ELSE Min2(xStart + tileWidth, At(array.shape, 1))
    IN  [channel |-> IF hasChannels THEN <<0>> ELSE << >>,
         rows |-> <<yStart, yEnd>>,
         cols |-> <<xStart, xEnd>>,
         tileWidth |-> tileWidth,
         tileHeight |-> tileHeight]

-----------------------------------------------------------------------------
(* Rasterization *)

TransparentPixel == <<0, 0, 0, 0>>

\* the least and greatest sample of a buffer, Infinity and -Infinity when the
\* buffer is empty (the scan of dataToCanvas)
ScanMin(data) ==
    IF DOMAIN data.data = {} THEN PosInf
    ELSE Num(CHOOSE m \in {data.data[p] : p \in DOMAIN data.data} :
                \A p \in DOMAIN data.data : m <= data.data[p])

ScanMax(data) ==
    IF DOMAIN data.data = {} THEN NegInf
    ELSE Num(CHOOSE m \in {data.data[p] : p \in DOMAIN data.data} :
                \A p \in DOMAIN data.data : m >= data.data[p])

\* Math.round(Math.min(255, Math.max(0, ((rawValue - min) / range) * 255)))
\* stored in a Uint8ClampedArray (range > 0 , since the fields hold min <= max
\* of one scan); with min = Infinity, max = -Infinity the quotient is NaN,
\* which is stored as 0
NormalizeSample(rawValue, min, max) ==
    IF min.k = "num" /\ max.k = "num"
    THEN LET range == IF max.v - min.v # 0 THEN max.v - min.v ELSE 1
             t == (rawValue - min.v) * 255
         IN  IF t <= 0 THEN 0
             ELSE IF t >= 255 * range THEN 255
             ELSE (2 * t + range) \div (2 * range)
    ELSE 0

\* lines 257-280 of dataToCanvas: the scan when auto-normalization has no
\* range yet, the fields as the call leaves them, and the min and max the
\* samples are mapped with
NormalizationFor(data, minV, maxV, auto) ==
    LET scans   == auto /\ (minV.k = "null" \/ maxV.k = "null")
        minLoc  == IF scans THEN ScanMin(data) ELSE minV
        maxLoc  == IF scans THEN ScanMax(data) ELSE maxV
        minNew  == IF scans /\ minV.k = "null" THEN minLoc ELSE minV
        maxNew  == IF scans /\ maxV.k = "null" THEN maxLoc ELSE maxV
    IN  [minValue |-> minNew,
         maxValue |-> maxNew,
         min      |-> JsOr(JsOr(minNew, minLoc), Num(0)),
         max      |-> JsOr(JsOr(maxNew, maxLoc), Num(255)),
         scanned  |-> scans]

\* a gray opaque pixel
Gray(value) == <<value, value, value, 255>>

\* lines 247-255 and 283-300 of dataToCanvas: a canvas of width x height whose
\* image data, transparent at first, gets sample (y, x) of the buffer at
\* index y * actualWidth + x
Rasterize(data, width, height, min, max) ==
    LET actualHeight == At(data.shape, 0)
        actualWidth  == At(data.shape, 1)
    IN  [width  |-> width,
         height |-> height,
         pixels |-> [idx \in 0 .. width * height - 1 |->
                       IF idx < actualHeight * actualWidth
                       THEN Gray(NormalizeSample(
                                data.data[<<idx \div actualWidth, idx % actualWidth>>],
                                min, max))
                       ELSE TransparentPixel]]

\* dataToCanvas(data, width, height) with the adapter's normalization fields:
\* the canvas, and the fields as the call leaves them
DataToCanvas(data, width, height, minV, maxV, auto) ==
    CHOOSE out \in
        {[canvas   |-> Rasterize(data, width, height, n.min, n.max),
          minValue |-> n.minValue,
          maxValue |-> n.maxValue,
          min      |-> n.min,
          max      |-> n.max,
          scanned  |-> n.scanned] : n \in {NormalizationFor(data, minV, maxV, auto)}} :
        TRUE

\* the canvas element dataToCanvas creates and returns: a new object each
\* call (id: its serial number among the canvases created) with the raster
Canvas(id, raster) ==
    [id |-> id, width |-> raster.width, height |-> raster.height,
     pixels |-> raster.pixels]

\* the pixel of a raster at (row, col)
PixelAt(canvas, row, col) == canvas.pixels[row * canvas.width + col]

\* canvas.toDataURL(): a lossless encoding of the canvas as it is at the call
ToDataURL(canvas) ==
    [mime |-> "image/png", width |-> canvas.width, height |-> canvas.height,
     pixels |-> canvas.pixels]

-----------------------------------------------------------------------------
(* Errors and completion *)

\* values a rejected promise or a throw can carry
ErrorOf(message) == [kind |-> "Error", message |-> message]
ThrownNull == [kind |-> "null", message |-> ""]
ThrownString == [kind |-> "string", message |-> ""]

\* what a region read can reject with
RejectionValues == {ErrorOf("network error"), ErrorOf(""), ThrownNull, ThrownString}

\* error.message: undefined (<< >>) on a value that is no Error
MessageOf(error) == IF error.kind = "Error" THEN <<error.message>> ELSE << >>

\* reading a property of null throws
NullAccess == ErrorOf("Cannot read properties of null (reading 'message')")

\* context.finish(img)
FinishSuccess(img) == [image |-> <<img>>, message |-> << >>]

\* context.finish(null, null, message)
FinishFailure(message) == [image |-> << >>, message |-> message]

\* error.message without the fallback
MessageOnly(error) == MessageOf(error)

\* error.message || 'Unknown error'
MessageOrUnknown(error) ==
    IF MessageOf(error) = << >> \/ MessageOf(error) = <<"">>
    THEN <<"Unknown error">> ELSE MessageOf(error)

\* a catch block that reports the failure and throws the error again
GetTileImageCatchRethrows(error) ==
    IF error.kind = "null"
    THEN [finishes |-> << >>, rejected |-> <<NullAccess>>]
    ELSE [finishes |-> <<FinishFailure(MessageOrUnknown(error))>>, rejected |-> <<error>>]

\* the catch block of getTileImage: the finish calls it makes, and what it
\* throws itself (the promise of getTileImage then rejects with it)
GetTileImageCatch(error) ==
    IF error.kind = "null"
    THEN [finishes |-> << >>, rejected |-> <<NullAccess>>]
    ELSE [finishes |-> <<FinishFailure(MessageOrUnknown(error))>>, rejected |-> << >>]

\* downloadTileStart without a .catch on the promise
DownloadTileStartNoCatch(rejected) == << >>

\* the .catch of downloadTileStart on a rejection of getTileImage
DownloadTileStartCatch(rejected) ==
    IF rejected = << >> THEN << >>
    ELSE IF rejected[1].kind = "null"
         THEN << >>
         ELSE <<FinishFailure(MessageOf(rejected[1]))>>

\* whether the error leaves downloadTileStart unhandled
Escapes(error) ==
    /\ GetTileImageCatch(error).rejected # << >>
    /\ GetTileImageCatch(error).rejected[1].kind = "null"

-----------------------------------------------------------------------------
(* Construction and initialization *)

\* the options objects the adapter is constructed with: a field is << >>
\* when the caller leaves it out
OptionsSet ==
    [maxCacheSize  : {<< >>} \cup {<<n>> : n \in 1 .. MaxCapacity},
     autoNormalize : {<< >>, <<FALSE>>},
     fixedMin      : {<< >>, <<5>>},
     fixedMax      : {<< >>, <<20>>}]

\* this.maxCacheSize = options.maxCacheSize || 100
ConstructMaxCacheSize(options) ==
    IF options.maxCacheSize = << >> \/ options.maxCacheSize = <<0>>
    THEN DefaultMaxCacheSize ELSE options.maxCacheSize[1]

\* this.autoNormalize = options.autoNormalize !== false
ConstructAutoNormalize(options) == options.autoNormalize # <<FALSE>>

\* this.minValue = null, this.maxValue = null: no option is read
ConstructMinValue(options) == Null
ConstructMaxValue(options) == Null

\* createTileSource() reading every array as [height, width]
CreateTileSourceNoChannelAxis(arrays) ==
    LET shape  == At(arrays, 0).array.shape
        chunks == At(arrays, 0).array.chunks
    IN  [height |-> At(shape, 0), width |-> At(shape, 1),
         tileWidth |-> At(chunks, 1), tileHeight |-> At(chunks, 0),
         tileSize |-> Max2(At(chunks, 1), At(chunks, 0)),
         minLevel |-> 0, maxLevel |-> Len(arrays) - 1]

\* createTileSource(): the geometry published to the engine
CreateTileSource(arrays) ==
    LET shape  == At(arrays, 0).array.shape
        chunks == At(arrays, 0).array.chunks
        hasChannels == Len(shape) = 3
        height == IF hasChannels THEN At(shape, 1) ELSE At(shape, 0)
        width  == IF hasChannels THEN At(shape, 2) ELSE At(shape, 1)
        tileWidth  == IF hasChannels THEN At(chunks, 2) ELSE At(chunks, 1)
        tileHeight == IF hasChannels THEN At(chunks, 1) ELSE At(chunks, 0)
    IN  [height |-> height, width |-> width,
         tileWidth |-> tileWidth, tileHeight |-> tileHeight,
         tileSize |-> Max2(tileWidth, tileHeight),
         minLevel |-> 0, maxLevel |-> Len(arrays) - 1]

\* new OmeZarrTileSource(zarrUrl, options)
Init ==
    /\ store \in StoreNames
    /\ optionsIn \in OptionsSet
    /\ initPc = "new"
    /\ metadata = << >>
    /\ opened = 0
    /\ initResults = << >>
    /\ zarrArrays = << >>
    /\ tileSource = << >>
    /\ tileCache = << >>
    /\ maxCacheSize = ConstructMaxCacheSize(optionsIn)
    /\ minValue = ConstructMinValue(optionsIn)
    /\ maxValue = ConstructMaxValue(optionsIn)
    /\ autoNormalize = ConstructAutoNormalize(optionsIn)
    /\ reqs = EmptyBag
    /\ inserted = << >>

tileVars == <<tileCache, minValue, maxValue, reqs, inserted>>

\* what initialize() throws: the kind of error and the parts of its message
InitError(kind, parts) == [kind |-> kind, message |-> parts]

\* what the call settled with: the response it got, the arrays it opened,
\* and the tile source it returned or the error it rejected with
InitResult(response, count, source, error) ==
    [response |-> response, opened |-> count, tileSource |-> source, error |-> error]

\* the .zattrs document of a store: multiscales[0] with its datasets (their
\* paths) and its axes; a field is << >> when the document leaves it out
Descriptor(st) ==
    [multiscales |-> TRUE,
     datasets    |-> <<st.datasets>>,
     axes        |-> <<IF Len(st.arrays[1].shape) = 3
                       THEN <<"c", "y", "x">> ELSE <<"y", "x">>>>]

\* the documents a server can hold for the store: the full one, and the
\* ones that lack multiscales, the datasets, the axes, or declare no dataset
Descriptors(st) ==
    {Descriptor(st),
     [Descriptor(st) EXCEPT !.multiscales = FALSE, !.datasets = << >>, !.axes = << >>],
     [Descriptor(st) EXCEPT !.datasets = << >>],
     [Descriptor(st) EXCEPT !.datasets = << << >> >>],
     [Descriptor(st) EXCEPT !.axes = << >>]}

\* what fetch(zattrsUrl) and response.json() can give: fetch rejects, a
\* non-OK status, a body that is no JSON (<< >>), or a parsed document
Response(fetched, ok, body) == [fetched |-> fetched, ok |-> ok, body |-> body]
Responses(st) ==
    {Response(FALSE, FALSE, << >>), Response(TRUE, FALSE, << >>),
     Response(TRUE, TRUE, << >>)}
        \cup {Response(TRUE, TRUE, <<d>>) : d \in Descriptors(st)}

\* the responses of a server that holds the full document
PlainResponses(st) ==
    {Response(TRUE, FALSE, << >>), Response(TRUE, TRUE, <<Descriptor(st)>>)}

\* what openArray rejects with: the array library throws Error objects
OpenRejections == {ErrorOf("array not found"), ErrorOf("")}

\* the array stored under a dataset path
ArrayAtPath(st, path) ==
    st.arrays[CHOOSE i \in DOMAIN st.datasets : st.datasets[i] = path]

\* lines 27-45 and, when the loop has nothing to open, 75: the error the
\* call throws before it opens an array, << >> when it throws none
MetadataError(response, arrays) ==
    IF ~response.fetched
    THEN <<InitError("TypeError", <<"Failed to fetch">>)>>
    ELSE IF ~response.ok
    THEN <<InitError("Error", <<"HTTP ", "status", ": Failed to fetch .zattrs from ",
                               "zattrsUrl">>)>>
    ELSE IF response.body = << >>
    THEN <<InitError("SyntaxError", <<"Unexpected token">>)>>
    ELSE IF ~response.body[1].multiscales
    THEN <<InitError("Error", <<"Invalid OME-Zarr metadata: missing multiscales">>)>>
    ELSE IF response.body[1].datasets = << >>
    THEN <<InitError("TypeError", <<"this.datasets is not iterable">>)>>
    ELSE IF response.body[1].datasets[1] = << >> /\ arrays = << >>
    THEN <<InitError("TypeError", <<"Cannot read properties of undefined (reading 'array')">>)>>
    ELSE << >>

\* initialize() is called on a new adapter (as createOmeZarrTileSource does)
\* and fetches .zattrs
InitializeStart ==
    /\ initPc = "new"
    /\ initPc' = "fetching"
    /\ opened' = 0
    /\ UNCHANGED <<viewVars, metadata, initResults, adapterVars, tileVars>>

\* fetch(zattrsUrl) settles: lines 27-35; a rejected fetch and a non-OK
\* response make initialize() throw, an OK response is asked for its body
\* with response.json()
ZattrsFetchSettle(fetched, ok) ==
    /\ initPc = "fetching"
    /\ IF fetched /\ ok
       THEN /\ initPc' = "parsing"
            /\ UNCHANGED initResults
       ELSE /\ initPc' = "failed"
            /\ initResults' = Append(initResults,
                   InitResult(Response(fetched, ok, << >>), 0, << >>,
                              MetadataError(Response(fetched, ok, << >>), zarrArrays)))
    /\ UNCHANGED <<viewVars, metadata, opened, adapterVars, tileVars>>

\* response.json() settles: lines 35-45, up to the first openArray; a
\* document that declares no dataset goes straight to createTileSource()
MetadataResolve(response) ==
    /\ initPc = "parsing"
    /\ response.fetched /\ response.ok
    /\ metadata' = IF response.fetched /\ response.ok /\ response.body # << >>
                   THEN response.body ELSE metadata
    /\ LET error == MetadataError(response, zarrArrays)
       IN  IF error # << >>
           THEN /\ initPc' = "failed"
                /\ initResults' = Append(initResults, InitResult(response, 0, << >>, error))
                /\ UNCHANGED tileSource
           ELSE IF response.body[1].datasets[1] = << >>
           THEN /\ initPc' = "ready"
                /\ tileSource' = <<CreateTileSource(zarrArrays)>>
                /\ initResults' = Append(initResults,
                       InitResult(response, 0, <<CreateTileSource(zarrArrays)>>, << >>))
           ELSE /\ initPc' = "opening"
                /\ UNCHANGED <<initResults, tileSource>>
    /\ UNCHANGED <<viewVars, opened, store, optionsIn, zarrArrays, maxCacheSize, autoNormalize,
                   tileVars>>

\* the response the running call got
CurrentResponse == Response(TRUE, TRUE, metadata)

\* openArray of the next dataset resolves: the array is pushed, and after the
\* last one createTileSource() makes the tile source
OpenArrayResolve ==
    /\ initPc = "opening"
    /\ opened < Len(metadata[1].datasets[1])
    /\ LET path == metadata[1].datasets[1][opened + 1]
           pushed == Append(zarrArrays,
                            [path  |-> path,
                             array |-> ArrayAtPath(StoreAt(store), path),
                             scale |-> <<1, 1, 1>>])
       IN  /\ zarrArrays' = pushed
           /\ opened' = opened + 1
           /\ IF opened + 1 = Len(metadata[1].datasets[1])
              THEN /\ tileSource' = <<CreateTileSource(pushed)>>
                   /\ initPc' = "ready"
                   /\ initResults' = Append(initResults,
                          InitResult(CurrentResponse, opened + 1,
                                     <<CreateTileSource(pushed)>>, << >>))
              ELSE UNCHANGED <<tileSource, initPc, initResults>>
    /\ UNCHANGED <<viewVars, metadata, store, optionsIn, maxCacheSize, autoNormalize, tileVars>>

\* a failed openArray that ends the loop and publishes the levels opened so far
OpenArrayRejectPublishes(err) ==
    /\ initPc = "opening"
    /\ opened < Len(metadata[1].datasets[1])
    /\ zarrArrays # << >>
    /\ initPc' = "ready"
    /\ tileSource' = <<CreateTileSource(zarrArrays)>>
    /\ initResults' = Append(initResults,
           InitResult(CurrentResponse, opened, <<CreateTileSource(zarrArrays)>>, << >>))
    /\ UNCHANGED <<viewVars, metadata, opened, store, optionsIn, zarrArrays, maxCacheSize,
                   autoNormalize, tileVars>>

\* openArray of the next dataset rejects with err: lines 67-70 throw an Error
\* whose message carries dataset.path and err.message, and initialize() rejects
OpenArrayReject(err) ==
    /\ initPc = "opening"
    /\ opened < Len(metadata[1].datasets[1])
    /\ initPc' = "failed"
    /\ initResults' = Append(initResults,
           InitResult(CurrentResponse, opened, << >>,
               <<InitError("Error",
                    <<"Failed to load zarr array for ",
                      metadata[1].datasets[1][opened + 1], ": ", err.message>>)>>))
    /\ UNCHANGED <<viewVars, metadata, opened, adapterVars, tileVars>>

-----------------------------------------------------------------------------
(* Tile requests *)

\* the record of one downloadTileStart(context): the position of its
\* getTileImage, the calls of context.finish so far, and what it did
NewRequest(level, x, y) ==
    [tile     |-> [level |-> level, x |-> x, y |-> y],
     pc       |-> "done",   \* fetch (awaiting array.get), decode (awaiting the image),
                            \* rejected (getTileImage rejected, the .catch not yet run), done
     finishes |-> << >>,    \* the calls of context.finish, in order
     hit      |-> FALSE,    \* served by the cache branch of getTileImage
     held     |-> << >>,    \* the canvas the cache held for the key at the call
     reads    |-> << >>,    \* the region reads issued
     tileWidth |-> 0,       \* locals of getTileImage kept across the await
     tileHeight |-> 0,
     rasters  |-> 0,        \* calls of dataToCanvas
     canvas   |-> << >>,    \* the canvas dataToCanvas returned
     norm     |-> << >>,    \* the min and max dataToCanvas mapped the samples with
     scanned  |-> FALSE,    \* dataToCanvas scanned the buffer for its min and max
     src      |-> << >>,    \* img.src
     errors   |-> << >>,    \* the errors raised while resolving
     escaped  |-> FALSE]    \* an error left downloadTileStart unhandled

\* an error raised in the try block of getTileImage: the catch block runs;
\* when it throws itself the promise of getTileImage rejects, and the .catch
\* of downloadTileStart runs as a later job
Failed(req, error) ==
    [req EXCEPT !.pc = IF GetTileImageCatch(error).rejected = << >>
                       THEN "done" ELSE "rejected",
                !.finishes = @ \o GetTileImageCatch(error).finishes,
                !.errors = Append(@, error),
                !.escaped = Escapes(error)]

\* the synchronous part of getTileImage, up to the first await
StartTile(level, x, y, encodeOk) ==
    LET req == NewRequest(level, x, y)
        zarrLevelIndex == ZarrLevelIndex(zarrArrays, level)
        key == CacheKey(level, x, y)
    IN  IF CacheHas(tileCache, key)
        THEN LET canvas == CacheGet(tileCache, key)
                 hit == [req EXCEPT !.hit = TRUE]
             IN  IF encodeOk
                 THEN [hit EXCEPT !.pc = "decode", !.src = <<ToDataURL(canvas)>>]
                 ELSE Failed(hit, ErrorOf("toDataURL failed"))
        ELSE IF zarrLevelIndex < 0 \/ zarrLevelIndex >= Len(zarrArrays)
        THEN Failed(req, ErrorOf("Invalid zarr level index"))
        ELSE LET sel == TileSelection(At(zarrArrays, zarrLevelIndex).array, x, y)
             IN  [req EXCEPT !.pc = "fetch",
                             !.tileWidth = sel.tileWidth,
                             !.tileHeight = sel.tileHeight,
                             !.reads = <<[level |-> zarrLevelIndex,
                                          channel |-> sel.channel,
                                          rows |-> sel.rows,
                                          cols |-> sel.cols]>>]

\* the bag of requests with one of them replaced
Replace(bag, old, new) == (bag (-) SetToBag({old})) (+) SetToBag({new})

\* the requests issued so far, and those not yet completed
Requests == BagToSet(reqs)
Pending == {req \in Requests : req.pc # "done"}

\* the canvas the cache holds under the key of a tile, << >> when none
HeldFor(level, x, y) ==
    LET at == {i \in DOMAIN tileCache : tileCache[i].key = CacheKey(level, x, y)}
    IN  IF at = {} THEN << >> ELSE <<tileCache[CHOOSE i \in at : TRUE].canvas>>

\* a downloadTileStart whose cache hit moves the entry to the end of the map
DownloadTileStartRefreshes(level, x, y, encodeOk) ==
    /\ tileSource # << >>
    /\ encodeOk \/ CacheHas(tileCache, CacheKey(level, x, y))
    /\ reqs' = reqs (+) SetToBag({[StartTile(level, x, y, encodeOk) EXCEPT
                                      !.held = HeldFor(level, x, y)]})
    /\ tileCache' =
          IF CacheHas(tileCache, CacheKey(level, x, y))
          THEN Append(SelectSeq(tileCache,
                                LAMBDA e : e.key # CacheKey(level, x, y)),
                      [key |-> CacheKey(level, x, y),
                       canvas |-> CacheGet(tileCache, CacheKey(level, x, y))])
          ELSE tileCache
    /\ UNCHANGED <<viewVars, initVars, adapterVars, minValue, maxValue, inserted>>

\* tileSource.downloadTileStart(context) for context.tile = (level, x, y)
DownloadTileStart(level, x, y, encodeOk) ==
    /\ tileSource # << >>
    /\ encodeOk \/ CacheHas(tileCache, CacheKey(level, x, y))
    /\ reqs' = reqs (+) SetToBag({[StartTile(level, x, y, encodeOk) EXCEPT
                                      !.held = HeldFor(level, x, y)]})
    /\ UNCHANGED <<viewVars, initVars, adapterVars, tileCache, minValue, maxValue, inserted>>

\* what the await of array.get resolves with
ReadResult(req) ==
    ArrayGet(At(zarrArrays, req.reads[1].level).array, req.reads[1].rows, req.reads[1].cols)

\* the region read of a request resolves: rasterize, cache, encode.
\* outcome: ok, or the DOM call that throws (canvas creation, toDataURL)
FetchResolve(req, outcome) ==
    /\ BagIn(req, reqs)
    /\ req.pc = "fetch"
    /\ \E tileData \in {ReadResult(req)} :
       \E r \in {DataToCanvas(tileData, req.tileWidth, req.tileHeight,
                              minValue, maxValue, autoNormalize)} :
       LET key == CacheKey(req.tile.level, req.tile.x, req.tile.y)
           canvas == Canvas(Len(inserted) + 1, r.canvas)
           got == [req EXCEPT !.rasters = @ + 1]
           drawn == [got EXCEPT !.canvas = <<canvas>>, !.norm = <<r.min, r.max>>,
                                !.scanned = r.scanned]
       IN  IF outcome = "canvasThrows"
           THEN /\ reqs' = Replace(reqs, req, Failed(got, ErrorOf("canvas creation failed")))
                /\ UNCHANGED <<tileCache, minValue, maxValue, inserted>>
           ELSE /\ minValue' = r.minValue
                /\ maxValue' = r.maxValue
                /\ tileCache' = AddToCache(tileCache, maxCacheSize, key, canvas)
                /\ inserted' = Append(inserted, key)
                /\ reqs' = Replace(reqs, req,
                              IF outcome = "encodeThrows"
                              THEN Failed(drawn, ErrorOf("toDataURL failed"))
                              ELSE [drawn EXCEPT !.pc = "decode",
                                                 !.src = <<ToDataURL(canvas)>>])
    /\ UNCHANGED <<viewVars, initVars, adapterVars>>

FetchOutcomes == {"ok", "canvasThrows", "encodeThrows"}

\* a rejected region read that is issued once more
FetchRejectRetries(req, error) ==
    /\ BagIn(req, reqs)
    /\ req.pc = "fetch"
    /\ reqs' = Replace(reqs, req,
                  IF Len(req.reads) < 2
                  THEN [req EXCEPT !.reads = Append(@, @[1])]
                  ELSE Failed(req, error))
    /\ UNCHANGED <<viewVars, initVars, adapterVars, tileCache, minValue, maxValue, inserted>>

\* the region read of a request rejects
FetchReject(req, error) ==
    /\ BagIn(req, reqs)
    /\ req.pc = "fetch"
    /\ reqs' = Replace(reqs, req, Failed(req, error))
    /\ UNCHANGED <<viewVars, initVars, adapterVars, tileCache, minValue, maxValue, inserted>>

\* the .catch of downloadTileStart runs on the rejection of getTileImage
GetTileImageRejected(req) ==
    /\ BagIn(req, reqs)
    /\ req.pc = "rejected"
    /\ reqs' = Replace(reqs, req,
                  [req EXCEPT
                     !.pc = "done",
                     !.finishes = @ \o DownloadTileStartCatch(
                         GetTileImageCatch(req.errors[Len(req.errors)]).rejected)])
    /\ UNCHANGED <<viewVars, initVars, adapterVars, tileCache, minValue, maxValue, inserted>>

\* img.onload
ImageLoad(req) ==
    /\ BagIn(req, reqs)
    /\ req.pc = "decode"
    /\ reqs' = Replace(reqs, req,
                  [req EXCEPT !.pc = "done",
                              !.finishes = Append(@, FinishSuccess(req.src[1]))])
    /\ UNCHANGED <<viewVars, initVars, adapterVars, tileCache, minValue, maxValue, inserted>>

\* img.onerror
ImageError(req) ==
    /\ BagIn(req, reqs)
    /\ req.pc = "decode"
    /\ reqs' = Replace(reqs, req,
                  [req EXCEPT
                     !.pc = "done",
                     !.finishes = Append(@, FinishFailure(
                         IF req.hit
                         THEN <<"Failed to load cached tile">>
                         ELSE <<"Failed to create image from canvas">>))])
    /\ UNCHANGED <<viewVars, initVars, adapterVars, tileCache, minValue, maxValue, inserted>>

-----------------------------------------------------------------------------
(* Specifications *)

\* the tiles the engine asks for while several requests are in flight:
\* three tiles of the grid (an edge tile among them) and one level beyond
\* the pyramid
BusyTiles == {<<1, 0, 0>>, <<1, 1, 0>>, <<0, 0, 0>>, <<2, 0, 0>>}

\* what a region read rejects with while several requests are in flight
BusyRejections == {ErrorOf("network error"), ThrownNull}

\* the engine issues a request while others are in flight
EngineRequest ==
    /\ BagCardinality(reqs) < MaxReq
    /\ \E t \in BusyTiles : \E encodeOk \in BOOLEAN :
          DownloadTileStart(t[1], t[2], t[3], encodeOk)

\* the initialization steps
InitializeStep ==
    \/ InitializeStart
    \/ \E response \in PlainResponses(StoreAt(store)) :
          ZattrsFetchSettle(response.fetched, response.ok)
    \/ \E response \in PlainResponses(StoreAt(store)) : MetadataResolve(response)
    \/ OpenArrayResolve
    \/ \E err \in OpenRejections : OpenArrayReject(err)

\* a pending region read settles
FetchSettle ==
    \E req \in Pending :
        \/ \E error \in BusyRejections : FetchReject(req, error)
        \/ \E outcome \in FetchOutcomes : FetchResolve(req, outcome)

\* a pending image decode settles
DecodeSettle == \E req \in Pending : ImageLoad(req) \/ ImageError(req)

\* the job of a pending .catch runs
CatchSettle == \E req \in Pending : GetTileImageRejected(req)

-----------------------------------------------------------------------------
(* The view src/src/views/OpenSeadragonTest.vue: its drawing state and the   *)
(* drawing overlay createDrawingOverlay() lays over the engine's viewer.     *)
(* Coordinates, of the image and of the canvas, are counted in half pixels. *)
(* What redraw() paints is not part of the state.                            *)

\* pointer events dispatched to the drawing canvas in one run
MaxEvents == 4

\* the 0.5 image pixels of onPointerMove, in half pixels
MoveThreshold == 1

\* one pixel, in half pixels
Pixel == 2 * MoveThreshold

viewportVars == <<viewCurrent, viewTarget>>
penVars == <<drawColor, drawLineWidth>>
gestureVars == <<liveStroke, isPointerDown>>
eventVars == <<pointerEvent, dispatched>>
roiVars == <<roiList, newRoi, roiOverlay, rois>>
drawVars == <<mouseNavEnabled, viewportVars, drawingOverlay, overlayCanvas,
              gestureVars, strokes, drawMode, penVars, eventVars>>

\* the colour picker's values and the width slider's (1 to 20, step 1)
PenColors == {"#FF4444", "#44BBFF"}
LineWidths == {1, 3}

\* positions of the pointer over the canvas, e.clientX - rect.left and
\* e.clientY - rect.top, in whole canvas pixels
CanvasPixels == {<<0, 0>>, <<1, 0>>, <<0, 2>>}

\* a view of the engine: the image point shown at the canvas origin and the
\* canvas pixels per image pixel; the home view and a zoomed, panned one
HomeView == [pan |-> <<0, 0>>, zoom |-> 1]
Views == {HomeView, [pan |-> <<Pixel, 0>>, zoom |-> 2]}

\* { x, y }
Point(x, y) == [x |-> x, y |-> y]

\* viewer.viewport.imageToViewportCoordinates(x, y) and
\* viewer.viewport.pixelFromPoint(vp, true): with true the engine maps
\* through the view it displays now
ImageToCanvas(x, y) ==
    Point((x - viewCurrent.pan[1]) * viewCurrent.zoom,
          (y - viewCurrent.pan[2]) * viewCurrent.zoom)

\* viewer.viewport.pointFromPixel(new OpenSeadragon.Point(cx, cy)) and
\* viewer.viewport.viewportToImageCoordinates(vp): without the second
\* argument the engine maps through the view it is animating towards
CanvasToImage(cx, cy) ==
    Point(cx \div viewTarget.zoom + viewTarget.pan[1],
          cy \div viewTarget.zoom + viewTarget.pan[2])

\* Math.abs(a)
Abs(a) == IF a < 0 THEN -a ELSE a

\* the view is rendered: the buttons and inputs of the template can be used
Mounted == {"created", "open", "failed"}

\* the state after <script setup> has run
ViewSetup ==
    /\ viewerPc = "null"
    /\ mouseNavEnabled = TRUE
    /\ viewCurrent = HomeView
    /\ viewTarget = HomeView
    /\ drawingOverlay = "null"
    /\ overlayCanvas = << >>
    /\ liveStroke = << >>
    /\ isPointerDown = FALSE
    /\ strokes = << >>
    /\ drawMode = FALSE
    /\ drawColor = "#FF4444"
    /\ drawLineWidth = 3
    /\ pointerEvent = << >>
    /\ dispatched = 0
    /\ roiList = << >>
    /\ newRoi = [x |-> <<0>>, y |-> <<0>>, width |-> <<100>>, height |-> <<100>>,
                 label |-> ""]
    /\ roiOverlay = "null"
    /\ rois = [alias |-> FALSE, own |-> << >>]

\* onMounted: loadImage() creates the viewer
Mount ==
    /\ viewerPc = "null"
    /\ viewerPc' = "created"
    /\ UNCHANGED <<tileSourceVars, roiVars, mouseNavEnabled, viewportVars, drawingOverlay,
                   overlayCanvas, gestureVars, strokes, drawMode, penVars, eventVars>>

\* the viewer's open-failed handler
OpenFailed ==
    /\ viewerPc = "created"
    /\ viewerPc' = "failed"
    /\ UNCHANGED <<tileSourceVars, roiVars, mouseNavEnabled, viewportVars, drawingOverlay,
                   overlayCanvas, gestureVars, strokes, drawMode, penVars, eventVars>>

\* createDrawingOverlay(viewer): the canvas is appended to the viewer's
\* container with pointerEvents 'none', the four pointer listeners are added
CreateDrawingOverlay ==
    /\ overlayCanvas' = [pointerEvents |-> "none", cursor |-> "", attached |-> TRUE,
                  listening |-> TRUE]
    /\ liveStroke' = << >>
    /\ isPointerDown' = FALSE
    /\ drawingOverlay' = "handle"

\* setRois(newRois) of the ROI overlay: rois = newRois || [], where newRois
\* is roiList's own array (alias) or another array
SetRois(alias, newRois) ==
    rois' = [alias |-> alias, own |-> IF alias THEN << >> ELSE newRois]

\* a creation of the ROI overlay that leaves its list empty
CreateRoiOverlayEmpty ==
    /\ roiOverlay' = "handle"
    /\ SetRois(FALSE, << >>)

\* roiOverlay = createRoiOverlay(viewer); roiOverlay.setRois(roiList.value)
CreateRoiOverlay ==
    /\ roiOverlay' = "handle"
    /\ SetRois(TRUE, roiList)

\* the viewer's open handler: the ROI overlay and the drawing overlay are
\* created once
Open ==
    /\ viewerPc = "created"
    /\ viewerPc' = "open"
    /\ IF roiOverlay = "null"
          THEN CreateRoiOverlay
          ELSE UNCHANGED <<roiOverlay, rois>>
    /\ IF drawingOverlay = "null"
          THEN CreateDrawingOverlay
          ELSE UNCHANGED <<overlayCanvas, gestureVars, drawingOverlay>>
    /\ UNCHANGED <<tileSourceVars, roiList, newRoi, mouseNavEnabled, viewportVars, strokes, drawMode,
                   penVars, eventVars>>

\* setDrawMode(active) of the overlay's handle
SetDrawMode(active) ==
    /\ overlayCanvas' =
           [overlayCanvas EXCEPT !.pointerEvents = IF active THEN "auto" ELSE "none",
                                 !.cursor = IF active THEN "crosshair" ELSE "default"]
    /\ mouseNavEnabled' = ~active

\* toggleDrawMode()
ToggleDrawMode ==
    /\ viewerPc \in Mounted
    /\ drawMode' = ~drawMode
    /\ IF drawingOverlay # "null"
          THEN SetDrawMode(~drawMode)
          ELSE UNCHANGED <<overlayCanvas, mouseNavEnabled>>
    /\ UNCHANGED <<tileSourceVars, roiVars, viewerPc, viewportVars, drawingOverlay, gestureVars,
                   strokes, penVars, eventVars>>

\* the colour picker bound to drawColor with v-model
PickColor(color) ==
    /\ viewerPc \in Mounted
    /\ drawColor' = color
    /\ UNCHANGED <<tileSourceVars, roiVars, viewerPc, mouseNavEnabled, viewportVars,
                   drawingOverlay, overlayCanvas, gestureVars, strokes, drawMode,
                   drawLineWidth, eventVars>>

\* the width slider bound to drawLineWidth with v-model.number
PickLineWidth(width) ==
    /\ viewerPc \in Mounted
    /\ drawLineWidth' = width
    /\ UNCHANGED <<tileSourceVars, roiVars, viewerPc, mouseNavEnabled, viewportVars,
                   drawingOverlay, overlayCanvas, gestureVars, strokes, drawMode,
                   drawColor, eventVars>>

\* an undo that removes the oldest committed stroke
UndoFirstStroke ==
    /\ viewerPc \in Mounted
    /\ strokes' = IF Len(strokes) = 0 THEN strokes ELSE Tail(strokes)
    /\ UNCHANGED <<tileSourceVars, roiVars, viewerPc, mouseNavEnabled, viewportVars,
                   drawingOverlay, overlayCanvas, gestureVars, drawMode, penVars,
                   eventVars>>

\* undoLastStroke()
UndoLastStroke ==
    /\ viewerPc \in Mounted
    /\ strokes' = IF Len(strokes) = 0 THEN strokes
                  ELSE SubSeq(strokes, 1, Len(strokes) - 1)
    /\ UNCHANGED <<tileSourceVars, roiVars, viewerPc, mouseNavEnabled, viewportVars,
                   drawingOverlay, overlayCanvas, gestureVars, drawMode, penVars, eventVars>>

\* clearAllStrokes()
ClearAllStrokes ==
    /\ viewerPc \in Mounted
    /\ strokes' = << >>
    /\ UNCHANGED <<tileSourceVars, roiVars, viewerPc, mouseNavEnabled, viewportVars,
                   drawingOverlay, overlayCanvas, gestureVars, drawMode, penVars, eventVars>>

\* an onPointerDown that starts every stroke with the initial pen
OnPointerDownInitialPen(px, py) ==
    /\ isPointerDown' = TRUE
    /\ liveStroke' = [points |-> <<CanvasToImage(px * Pixel, py * Pixel)>>,
                      color |-> "#FF4444", lineWidth |-> 3]
    /\ UNCHANGED strokes

\* onPointerDown(e), the pointer at canvas pixel (px, py)
OnPointerDown(px, py) ==
    /\ isPointerDown' = TRUE
    /\ liveStroke' = [points |-> <<CanvasToImage(px * Pixel, py * Pixel)>>,
                      color |-> drawColor, lineWidth |-> drawLineWidth]
    /\ UNCHANGED strokes

\* an onPointerMove that also records a point 0.5 image pixels away
OnPointerMoveAtThreshold(px, py) ==
    IF ~isPointerDown \/ liveStroke = << >>
       THEN UNCHANGED <<liveStroke, isPointerDown, strokes>>
       ELSE LET at == CanvasToImage(px * Pixel, py * Pixel)
                last == liveStroke.points[Len(liveStroke.points)]
            IN  /\ liveStroke' =
                       IF \/ Abs(at.x - last.x) >= MoveThreshold
                          \/ Abs(at.y - last.y) >= MoveThreshold
                          THEN [liveStroke EXCEPT !.points = Append(@, at)]
                          ELSE liveStroke
                /\ UNCHANGED <<isPointerDown, strokes>>

\* onPointerMove(e), the pointer at canvas pixel (px, py)
OnPointerMove(px, py) ==
    IF ~isPointerDown \/ liveStroke = << >>
       THEN UNCHANGED <<liveStroke, isPointerDown, strokes>>
       ELSE LET at == CanvasToImage(px * Pixel, py * Pixel)
                last == liveStroke.points[Len(liveStroke.points)]
            IN  /\ liveStroke' =
                       IF \/ Abs(at.x - last.x) > MoveThreshold
                          \/ Abs(at.y - last.y) > MoveThreshold
                          THEN [liveStroke EXCEPT !.points = Append(@, at)]
                          ELSE liveStroke
                /\ UNCHANGED <<isPointerDown, strokes>>

\* an onPointerUp that commits whatever stroke is in progress
OnPointerUpCommitsAny ==
    IF ~isPointerDown
       THEN UNCHANGED <<liveStroke, isPointerDown, strokes>>
       ELSE /\ isPointerDown' = FALSE
            /\ strokes' = IF liveStroke # << >>
                             THEN Append(strokes, liveStroke)
                             ELSE strokes
            /\ liveStroke' = << >>

\* onPointerUp(e), the listener of pointerup and of pointercancel
OnPointerUp ==
    IF ~isPointerDown
       THEN UNCHANGED <<liveStroke, isPointerDown, strokes>>
       ELSE /\ isPointerDown' = FALSE
            /\ strokes' = IF liveStroke # << >> /\ Len(liveStroke.points) >= 2
                             THEN Append(strokes, liveStroke)
                             ELSE strokes
            /\ liveStroke' = << >>

\* the listener the canvas has for an event type
Listener(type, px, py) ==
    CASE type = "pointerdown" -> OnPointerDown(px, py)
      [] type = "pointermove" -> OnPointerMove(px, py)
      [] type \in {"pointerup", "pointercancel"} -> OnPointerUp

PointerEventTypes == {"pointerdown", "pointermove", "pointerup", "pointercancel"}

\* the browser dispatches a pointer event to the drawing canvas: the canvas
\* is hit when its pointerEvents is 'auto', and after setPointerCapture the
\* events of a held pointer go to it wherever the pointer is
PointerEvent ==
    /\ overlayCanvas # << >>
    /\ overlayCanvas.attached /\ overlayCanvas.listening
    /\ (overlayCanvas.pointerEvents = "auto" \/ isPointerDown)
    /\ dispatched < MaxEvents
    /\ \E type \in PointerEventTypes : \E at \in CanvasPixels :
          /\ type = "pointerdown" => overlayCanvas.pointerEvents = "auto"
          /\ pointerEvent' = [type |-> type, x |-> at[1], y |-> at[2]]
          /\ Listener(type, at[1], at[2])
    /\ dispatched' = dispatched + 1
    /\ UNCHANGED <<tileSourceVars, roiVars, viewerPc, mouseNavEnabled, viewportVars,
                   drawingOverlay, overlayCanvas, drawMode, penVars>>

\* the engine is asked for another view, by its navigation buttons or by a
\* gesture on the viewer: the springs get a new target
PanZoom ==
    /\ viewerPc = "open"
    /\ \E view \in Views \ {viewTarget} : viewTarget' = view
    /\ UNCHANGED <<tileSourceVars, roiVars, viewerPc, mouseNavEnabled, viewCurrent,
                   drawingOverlay, overlayCanvas, gestureVars, strokes, drawMode, penVars,
                   eventVars>>

\* the engine's animation reaches its target and fires 'animation', whose
\* handler is redraw()
Animation ==
    /\ viewerPc = "open"
    /\ viewCurrent # viewTarget
    /\ viewCurrent' = viewTarget
    /\ UNCHANGED <<tileSourceVars, roiVars, viewerPc, mouseNavEnabled, viewTarget,
                   drawingOverlay, overlayCanvas, gestureVars, strokes, drawMode, penVars,
                   eventVars>>

\* a destroy that does not restore the engine's navigation
DestroyLeavesNavigation ==
    /\ overlayCanvas' = [overlayCanvas EXCEPT !.attached = FALSE, !.listening = FALSE]
    /\ UNCHANGED mouseNavEnabled

\* destroy() of the overlay's handle
Destroy ==
    /\ overlayCanvas' = [overlayCanvas EXCEPT !.attached = FALSE, !.listening = FALSE]
    /\ mouseNavEnabled' = TRUE

\* onUnmounted: the overlays are destroyed, then the viewer
Unmount ==
    /\ viewerPc \in Mounted
    /\ viewerPc' = "unmounted"
    /\ IF drawingOverlay # "null"
          THEN Destroy /\ drawingOverlay' = "null"
          ELSE UNCHANGED <<overlayCanvas, mouseNavEnabled, drawingOverlay>>
    /\ roiOverlay' = "null"
    /\ UNCHANGED <<tileSourceVars, roiList, newRoi, rois, viewportVars, gestureVars, strokes, drawMode,
                   penVars, eventVars>>

\* ROIs held in roiList in one run
MaxRois == 3

\* the ROI form: a number input holds <<n>>, or << >> when it is empty;
\* useMouseCoordsForRoi() fills x and y like typing them does
RoiForms ==
    [x : {<<0>>}, y : {<<0>>},
     width : {<< >>, <<0>>, <<100>>}, height : {<< >>, <<0>>, <<100>>},
     label : {"", " ", "tumour"}]

\* !value of a form number: empty and 0 are falsy
Falsy(value) == value = << >> \/ value = <<0>>

\* label.trim()
Trim(label) == IF label = " " THEN "" ELSE label

\* ROI_COLORS
ROI_COLORS == <<"#FF4444", "#44BBFF", "#44FF88", "#FFCC00", "#FF44FF", "#FF8800">>

\* newRoi.value.label.trim() || `ROI ${roiList.value.length + 1}`: the text
\* typed, or "ROI " followed by a number
RoiLabel(label, count) ==
    IF Trim(label) = "" THEN [text |-> "ROI ", n |-> count + 1]
    ELSE [text |-> Trim(label), n |-> 0]

\* the list the ROI overlay draws
DrawnRois == IF rois.alias THEN roiList ELSE rois.own

\* the inputs of the ROI form, bound to newRoi with v-model
EditNewRoi ==
    /\ viewerPc \in Mounted
    /\ \E form \in RoiForms \ {newRoi} : newRoi' = form
    /\ UNCHANGED <<tileSourceVars, viewerPc, drawVars, roiList, roiOverlay, rois>>

\* addRoi()
AddRoi ==
    /\ viewerPc \in Mounted
    /\ Len(roiList) < MaxRois
    /\ IF Falsy(newRoi.width) \/ Falsy(newRoi.height)
          THEN UNCHANGED <<roiList, rois>>
          ELSE /\ roiList' = Append(roiList,
                     [x |-> newRoi.x, y |-> newRoi.y, width |-> newRoi.width,
                      height |-> newRoi.height,
                      label |-> RoiLabel(newRoi.label, Len(roiList)),
                      color |-> ROI_COLORS[(Len(roiList) % Len(ROI_COLORS)) + 1]])
               /\ IF roiOverlay # "null"
                     THEN SetRois(TRUE, roiList')
                     ELSE UNCHANGED rois
    /\ UNCHANGED <<tileSourceVars, viewerPc, drawVars, newRoi, roiOverlay>>

\* removeRoi(index), index one of the rows of the list
RemoveRoi ==
    /\ viewerPc \in Mounted
    /\ \E index \in 0 .. Len(roiList) - 1 :
          roiList' = SubSeq(roiList, 1, index) \o SubSeq(roiList, index + 2, Len(roiList))
    /\ IF roiOverlay # "null"
          THEN SetRois(TRUE, roiList')
          ELSE UNCHANGED rois
    /\ UNCHANGED <<tileSourceVars, viewerPc, drawVars, newRoi, roiOverlay>>

\* clearAllRois(): roiList.value becomes a new array, the overlay gets
\* another one
ClearAllRois ==
    /\ viewerPc \in Mounted
    /\ roiList' = << >>
    /\ IF roiOverlay # "null"
          THEN SetRois(FALSE, << >>)
          ELSE UNCHANGED rois
    /\ UNCHANGED <<tileSourceVars, viewerPc, drawVars, newRoi, roiOverlay>>

ViewNext ==
    \/ Mount
    \/ OpenFailed
    \/ Open
    \/ ToggleDrawMode
    \/ \E color \in PenColors : PickColor(color)
    \/ \E width \in LineWidths : PickLineWidth(width)
    \/ UndoLastStroke
    \/ ClearAllStrokes
    \/ PointerEvent
    \/ PanZoom
    \/ Animation
    \/ Unmount

\* the view next to an adapter that is constructed and left alone
ViewInit ==
    /\ Init
    /\ store = StoreA.name
    /\ optionsIn = [maxCacheSize |-> << >>, autoNormalize |-> << >>,
                    fixedMin |-> << >>, fixedMax |-> << >>]
    /\ ViewSetup

ViewSpec == ViewInit /\ [][ViewNext]_vars

\* pointer events of a run in which one pointer draws stroke after stroke
MaxStrokeEvents == 6

\* the events of a single pointer over the canvas in draw mode: it goes
\* down when none is held, and moves and goes up while it is held
PointerEventSingle ==
    /\ overlayCanvas # << >>
    /\ overlayCanvas.attached /\ overlayCanvas.listening
    /\ overlayCanvas.pointerEvents = "auto"
    /\ dispatched < MaxStrokeEvents
    /\ \E type \in {"pointerdown", "pointermove", "pointerup"} :
       \E at \in CanvasPixels :
          /\ (type = "pointerdown") <=> ~isPointerDown
          /\ pointerEvent' = [type |-> type, x |-> at[1], y |-> at[2]]
          /\ Listener(type, at[1], at[2])
    /\ dispatched' = dispatched + 1
    /\ UNCHANGED <<tileSourceVars, roiVars, viewerPc, mouseNavEnabled, viewportVars,
                   drawingOverlay, overlayCanvas, drawMode, penVars>>

\* the view at the home view, one pointer drawing, strokes undone and cleared
StrokesNext ==
    \/ Mount
    \/ Open
    \/ ToggleDrawMode
    \/ \E color \in PenColors : PickColor(color)
    \/ UndoLastStroke
    \/ ClearAllStrokes
    \/ PointerEventSingle

StrokesSpec == ViewInit /\ [][StrokesNext]_vars

\* the view with its ROI form and list, before and after the image opens
RoiNext ==
    \/ Mount
    \/ OpenFailed
    \/ Open
    \/ EditNewRoi
    \/ AddRoi
    \/ RemoveRoi
    \/ ClearAllRois
    \/ Unmount

RoiSpec == ViewInit /\ [][RoiNext]_vars

-----------------------------------------------------------------------------
(* The specifications *)

Next ==
    \/ InitializeStep
    \/ EngineRequest
    \/ FetchSettle
    \/ DecodeSettle
    \/ CatchSettle

\* the adapter that serves overlapping requests: store A, autoNormalize left
\* at its default, any cache capacity
BusyInit ==
    /\ Init
    /\ ViewSetup
    /\ store = StoreA.name
    /\ optionsIn.autoNormalize = << >>
    /\ optionsIn.fixedMin = << >>
    /\ optionsIn.fixedMax = << >>

Spec == BusyInit /\ [][Next]_vars

\* the same adapter with a cache of one tile, so that hits, misses and
\* evictions all occur among the requests
FairInit ==
    /\ BusyInit
    /\ optionsIn.maxCacheSize = <<1>>

\* started region reads settle and image decodes fire load or error
FairSpec ==
    /\ FairInit
    /\ [][Next]_vars
    /\ WF_vars(FetchSettle)
    /\ WF_vars(DecodeSettle)
    /\ WF_vars(CatchSettle)

\* the engine issues one request at a time, for any tile indices and level
EngineRequestSeq ==
    /\ BagCardinality(reqs) < MaxSeqReq
    /\ Pending = {}
    /\ \E level \in -1 .. MaxEngineLevel :
       \E x \in -1 .. MaxTileIndex : \E y \in -1 .. MaxTileIndex :
       \E encodeOk \in BOOLEAN :
          DownloadTileStart(level, x, y, encodeOk)

\* a pending region read settles, with any rejection value
FetchSettleSeq ==
    \E req \in Pending :
        \/ \E error \in RejectionValues : FetchReject(req, error)
        \/ \E outcome \in FetchOutcomes : FetchResolve(req, outcome)

SeqNext ==
    \/ InitializeStep
    \/ EngineRequestSeq
    \/ FetchSettleSeq
    \/ DecodeSettle
    \/ CatchSettle

\* the adapter that serves one request at a time: any store, any
\* autoNormalize, the default cache capacity
SeqInit ==
    /\ Init
    /\ ViewSetup
    /\ optionsIn.maxCacheSize = << >>
    /\ optionsIn.fixedMin = << >>
    /\ optionsIn.fixedMax = << >>

SeqSpec == SeqInit /\ [][SeqNext]_vars

\* the tiles the engine asks for in a run that exercises the normalization:
\* both levels of a two-level pyramid, tile indices 0 and 1
NormTiles == (0 .. 1) \X (0 .. 1) \X (0 .. 1)

\* the engine issues a request, others may be in flight
EngineRequestNorm ==
    /\ BagCardinality(reqs) < MaxNormReq
    /\ \E t \in NormTiles : \E encodeOk \in BOOLEAN :
          DownloadTileStart(t[1], t[2], t[3], encodeOk)

NormNext ==
    \/ InitializeStep
    \/ EngineRequestNorm
    \/ FetchSettle
    \/ DecodeSettle
    \/ CatchSettle

\* any store, any autoNormalize, fixedMin and fixedMax both passed or both
\* left out, the default cache capacity
NormInit ==
    /\ Init
    /\ ViewSetup
    /\ optionsIn.maxCacheSize = << >>
    /\ (optionsIn.fixedMin = << >>) <=> (optionsIn.fixedMax = << >>)

NormSpec == NormInit /\ [][NormNext]_vars

\* initialize() is called again on an adapter whose earlier call has settled
InitializeAgain ==
    /\ initPc \in {"ready", "failed"}
    /\ Len(initResults) < MaxInitCalls
    /\ initPc' = "fetching"
    /\ opened' = 0
    /\ UNCHANGED <<viewVars, metadata, initResults, adapterVars, tileVars>>

\* the engine issues one request through a tile source it was given
EngineRequestInit ==
    /\ reqs = EmptyBag
    /\ \E t \in BusyTiles : DownloadTileStart(t[1], t[2], t[3], TRUE)

\* the initialization steps against a server that may hold any document
InitializeStepAny ==
    \/ InitializeStart
    \/ InitializeAgain
    \/ \E response \in Responses(StoreAt(store)) :
          ZattrsFetchSettle(response.fetched, response.ok)
    \/ \E response \in Responses(StoreAt(store)) : MetadataResolve(response)
    \/ OpenArrayResolve
    \/ \E err \in OpenRejections : OpenArrayReject(err)

InitNext ==
    \/ InitializeStepAny
    \/ EngineRequestInit
    \/ FetchSettle
    \/ DecodeSettle
    \/ CatchSettle

\* any store, every option left at its default
InitInit ==
    /\ Init
    /\ ViewSetup
    /\ optionsIn.maxCacheSize = << >>
    /\ optionsIn.autoNormalize = << >>
    /\ optionsIn.fixedMin = << >>
    /\ optionsIn.fixedMax = << >>

InitSpec == InitInit /\ [][InitNext]_vars

-----------------------------------------------------------------------------
(* Properties *)

\* the array of the storage level a request read, its extent and chunk shape
ReadArray(req) == At(zarrArrays, req.reads[1].level).array
ExtentOf(array) ==
    IF Len(array.shape) = 3 THEN <<array.shape[2], array.shape[3]>>
    ELSE <<array.shape[1], array.shape[2]>>
ChunkOf(array) ==
    IF Len(array.shape) = 3 THEN <<array.chunks[2], array.chunks[3]>>
    ELSE <<array.chunks[1], array.chunks[2]>>

Distinct(seq) == \A i, j \in DOMAIN seq : i # j => seq[i] # seq[j]

\* C1: context.finish is called at most once for every request, whichever
\* step of its resolution fails.
C1_FinishAtMostOnce == \A req \in Requests : Len(req.finishes) <= 1

\* a region read rejected with null went through both catch handlers and the
\* request was completed once
C1_Witness ==
    \E req \in Requests :
        /\ req.errors = <<ThrownNull>>
        /\ req.pc = "done"
        /\ Len(req.finishes) = 1

\* the requests for which context.finish has not been called
Unfinished == {req \in Requests : req.finishes = << >>}

\* C2: every request is eventually completed by a call of context.finish,
\* given that region reads settle and image decodes fire load or error.
C2_EventuallyFinished == (Unfinished # {}) ~> (Unfinished = {})

\* a request that read and decoded was completed while another was pending
C2_Witness ==
    \E req \in Requests :
        /\ req.reads # << >>
        /\ req.src # << >>
        /\ req.finishes # << >>
        /\ Pending # {}

\* C3: an error raised while resolving a tile never leaves downloadTileStart;
\* it is reported by one failure callback, at once or by the pending .catch
\* of downloadTileStart, and every failure callback carries a non-empty
\* message.
C3_ErrorsReported ==
    \A req \in Requests :
        /\ ~req.escaped
        /\ req.errors # << >> =>
              \/ /\ req.pc = "rejected"
                 /\ req.finishes = << >>
              \/ /\ req.pc = "done"
                 /\ req.finishes # << >>
                 /\ req.finishes[1].image = << >>
        /\ \A i \in DOMAIN req.finishes :
              req.finishes[i].image = << >> =>
                  /\ req.finishes[i].message # << >>
                  /\ req.finishes[i].message # <<"">>

\* a region read rejected with an Error whose message is empty was reported
\* as 'Unknown error'
C3_Witness ==
    \E req \in Requests :
        /\ req.errors = <<ErrorOf("")>>
        /\ req.finishes = <<FinishFailure(<<"Unknown error">>)>>

\* the capacity the options configure: options.maxCacheSize, 100 when absent
ConfiguredCapacity ==
    IF optionsIn.maxCacheSize = << >> THEN 100 ELSE optionsIn.maxCacheSize[1]

\* C4: the tile cache never holds more entries than the configured
\* maxCacheSize (100 when none is configured).
C4_CacheBounded == Len(tileCache) <= ConfiguredCapacity

\* the cache is full after more insertions than its capacity
C4_Witness ==
    /\ Len(tileCache) = ConfiguredCapacity
    /\ Len(inserted) > ConfiguredCapacity

\* the last n elements of a sequence
LastN(seq, n) ==
    IF Len(seq) <= n THEN seq ELSE SubSeq(seq, Len(seq) - n + 1, Len(seq))

\* C5: eviction is strict FIFO: while the keys inserted are distinct the
\* cache holds exactly the last maxCacheSize of them, in insertion order,
\* whatever cache hits happen in between; after N+1 insertions the first
\* key is absent and the other N are present.
C5_FifoEviction ==
    Distinct(inserted) =>
        /\ CacheKeys(tileCache) = LastN(inserted, ConfiguredCapacity)
        /\ Len(inserted) = ConfiguredCapacity + 1 =>
              /\ ~CacheHas(tileCache, inserted[1])
              /\ \A i \in 2 .. Len(inserted) : CacheHas(tileCache, inserted[i])

\* capacity 2 and three distinct keys A, B, C inserted: the cache is {B, C}
C5_Witness ==
    /\ ConfiguredCapacity = 2
    /\ Len(inserted) = 3
    /\ Distinct(inserted)
    /\ CacheKeys(tileCache) = <<inserted[2], inserted[3]>>

\* C6: a request made while the cache holds its key issues no region read
\* and no rasterization, and the image it delivers is the cached raster.
C6_CacheHitNoFetch ==
    \A req \in Requests :
        req.held # << >> =>
            /\ req.reads = << >>
            /\ req.rasters = 0
            /\ \A i \in DOMAIN req.finishes :
                  req.finishes[i].image # << >> =>
                      req.finishes[i].image = <<ToDataURL(req.held[1])>>

\* a tile was fetched and cached, and a second request for it was served
\* from the cache
C6_Witness ==
    \E req \in Requests :
        /\ req.held # << >>
        /\ req.finishes # << >>
        /\ req.finishes[1].image # << >>
        /\ \E first \in Requests :
              /\ first.tile = req.tile
              /\ Len(first.reads) = 1

\* C7: a request for engine level L in [0, numberOfLevels - 1] reads the
\* stored array numberOfLevels - 1 - L: level 0 reads the last array, the
\* maximum level reads array 0.
C7_LevelInversion ==
    \A req \in Requests :
        /\ (req.tile.level \in 0 .. Len(zarrArrays) - 1 /\ req.held = << >>) =>
              Len(req.reads) = 1
        /\ req.reads # << >> =>
              /\ req.reads[1].level = Len(zarrArrays) - 1 - req.tile.level
              /\ req.tile.level = 0 => req.reads[1].level = Len(zarrArrays) - 1
              /\ req.tile.level = tileSource[1].maxLevel => req.reads[1].level = 0

\* engine level 0 read the last of several stored arrays
C7_Witness ==
    \E req \in Requests :
        /\ req.reads # << >>
        /\ req.tile.level = 0
        /\ Len(zarrArrays) > 1
        /\ req.reads[1].level = Len(zarrArrays) - 1

\* a tile inside the grid of the level its request read
InGrid(req) ==
    LET extent == ExtentOf(ReadArray(req))
        chunk  == ChunkOf(ReadArray(req))
    IN  /\ req.tile.x >= 0 /\ req.tile.x * chunk[2] < extent[2]
        /\ req.tile.y >= 0 /\ req.tile.y * chunk[1] < extent[1]

\* C8: for a tile inside the grid the read asks for rows
\* [y*tileHeight, min((y+1)*tileHeight, levelHeight)) and columns
\* [x*tileWidth, min((x+1)*tileWidth, levelWidth)) of the resolved storage
\* level, and for channel 0 exactly when the array has a channel axis.
C8_TileRegion ==
    \A req \in Requests :
        (req.reads # << >> /\ InGrid(req)) =>
            LET extent == ExtentOf(ReadArray(req))
                chunk  == ChunkOf(ReadArray(req))
                x == req.tile.x
                y == req.tile.y
            IN  /\ req.reads[1].rows =
                      <<y * chunk[1], Min2((y + 1) * chunk[1], extent[1])>>
                /\ req.reads[1].cols =
                      <<x * chunk[2], Min2((x + 1) * chunk[2], extent[2])>>
                /\ req.reads[1].channel =
                      IF Len(ReadArray(req).shape) = 3 THEN <<0>> ELSE << >>

\* a tile of the last column was read clamped to the level's width, from a
\* level whose chunk shape differs from that of level 0
C8_Witness ==
    \E req \in Requests :
        /\ req.reads # << >>
        /\ InGrid(req)
        /\ req.reads[1].cols[2] < (req.tile.x + 1) * ChunkOf(ReadArray(req))[2]
        /\ req.reads[1].cols[2] = ExtentOf(ReadArray(req))[2]

\* C9: the raster of a fetched tile of the grid has the width and height of
\* the buffer the read returned, and the sample at buffer position (row, col)
\* lands at raster position (row, col).
C9_RasterHasBufferShape ==
    \A req \in Requests :
        (req.canvas # << >> /\ InGrid(req)) =>
            LET buffer == ReadResult(req)
                canvas == req.canvas[1]
                gray(p) == NormalizeSample(buffer.data[p], req.norm[1], req.norm[2])
            IN  /\ canvas.height = buffer.shape[1]
                /\ canvas.width = buffer.shape[2]
                /\ \A p \in DOMAIN buffer.data :
                      PixelAt(canvas, p[1], p[2]) = <<gray(p), gray(p), gray(p), 255>>

\* C10: every region read asks for row and column ranges with
\* 0 <= start <= end <= the level's extent on that axis.
C10_RangesInBounds ==
    \A req \in Requests :
        req.reads # << >> =>
            LET extent == ExtentOf(ReadArray(req))
                rows == req.reads[1].rows
                cols == req.reads[1].cols
            IN  /\ 0 <= rows[1] /\ rows[1] <= rows[2] /\ rows[2] <= extent[1]
                /\ 0 <= cols[1] /\ cols[1] <= cols[2] /\ cols[2] <= extent[2]

\* the requests for which dataToCanvas returned a canvas
Drawn == {req \in Requests : req.canvas # << >>}

\* C11: with auto-normalization on, minValue and maxValue are unset until the
\* first buffer is rasterized, exactly one rasterization scans its buffer, and
\* every later tile is mapped with the pair that scan stored.
C11_RangeSetOnce ==
    autoNormalize =>
        /\ Drawn = {} => (minValue = Null /\ maxValue = Null)
        /\ Drawn # {} => (minValue # Null /\ maxValue # Null)
        /\ \A req \in Requests :
              req.scanned =>
                  /\ CopiesIn(req, reqs) = 1
                  /\ \A other \in Requests : other.scanned => other = req
        /\ Drawn # {} => \E req \in Drawn : req.scanned
        /\ \A req \in Drawn :
              ~req.scanned => req.norm = <<minValue, maxValue>>

\* round(clamp((value - min) / range, 0, 1) * 255), range = max - min, or 1
\* when min = max
ClaimedMap(value, min, max) ==
    LET range == IF max = min THEN 1 ELSE max - min
        t == (value - min) * 255
    IN  IF t <= 0 THEN 0
        ELSE IF t >= 255 * range THEN 255
        ELSE (2 * t + range) \div (2 * range)

\* C12: while an integer pair min <= max is stored, every sample of a
\* rasterized buffer is mapped to
\* round(clamp((value - min) / range, 0, 1) * 255).
C12_MappingFormula ==
    (minValue.k = "num" /\ maxValue.k = "num" /\ minValue.v <= maxValue.v) =>
        \A req \in Drawn :
            LET buffer == ReadResult(req)
            IN  \A p \in DOMAIN buffer.data :
                    req.canvas[1].pixels[p[1] * buffer.shape[2] + p[2]][1] =
                        ClaimedMap(buffer.data[p], minValue.v, maxValue.v)

\* the rasters the cache holds and the rasters delivered to the engine
CachedRasters == {tileCache[i].canvas.pixels : i \in DOMAIN tileCache}
DeliveredRasters ==
    {req.finishes[i].image[1].pixels :
        req \in {r \in Requests : r.finishes # << >> /\ r.finishes[1].image # << >>},
        i \in {1}}

\* C13: every pixel of every cached or delivered raster has R = G = B in
\* 0 .. 255 and alpha 255.
C13_OpaqueGray ==
    \A pixels \in CachedRasters \cup DeliveredRasters :
        \A idx \in DOMAIN pixels :
            /\ pixels[idx][1] \in 0 .. 255
            /\ pixels[idx][2] = pixels[idx][1]
            /\ pixels[idx][3] = pixels[idx][1]
            /\ pixels[idx][4] = 255

\* C14: when fixedMin and fixedMax are passed in the options, every tile is
\* mapped with that pair and no buffer is scanned.
C14_FixedRangeUsed ==
    (optionsIn.fixedMin # << >> /\ optionsIn.fixedMax # << >>) =>
        \A req \in Drawn :
            /\ ~req.scanned
            /\ req.norm = <<Num(optionsIn.fixedMin[1]), Num(optionsIn.fixedMax[1])>>

\* C15: the tile source a successful initialization returns has the width
\* and height of stored level 0, that level's chunk width and height as
\* tileWidth and tileHeight, tileSize their maximum, minLevel 0 and
\* maxLevel the number of declared datasets minus one.
C15_PublishedGeometry ==
    tileSource # << >> =>
        LET level0 == ArrayAtPath(StoreAt(store), metadata[1].datasets[1][1])
            ts == tileSource[1]
        IN  /\ ts.height = ExtentOf(level0)[1]
            /\ ts.width = ExtentOf(level0)[2]
            /\ ts.tileHeight = ChunkOf(level0)[1]
            /\ ts.tileWidth = ChunkOf(level0)[2]
            /\ ts.tileSize = Max2(ChunkOf(level0)[1], ChunkOf(level0)[2])
            /\ ts.minLevel = 0
            /\ ts.maxLevel = Len(metadata[1].datasets[1]) - 1

\* a tile source was returned for a store without channel axis whose level 0
\* is not square and whose chunks are not square
C15_Witness ==
    /\ tileSource # << >>
    /\ Len(StoreAt(store).arrays[1].shape) = 2
    /\ tileSource[1].width # tileSource[1].height
    /\ tileSource[1].tileSize = tileSource[1].tileWidth
    /\ tileSource[1].tileWidth # tileSource[1].tileHeight

\* the dataset paths a response declares, << >> when it declares none
DeclaredIn(response) ==
    IF response.body = << >> \/ response.body[1].datasets = << >>
    THEN << >> ELSE response.body[1].datasets[1]

\* C16: a call of initialize() returns a tile source only if it loaded the
\* descriptor and opened the array of every declared dataset; a call in
\* which the opening of a level failed rejects with an error whose message
\* carries that level's path, and returns no tile source.
C16_AllLevelsOrNone ==
    \A i \in DOMAIN initResults :
        LET result == initResults[i]
            declared == DeclaredIn(result.response)
        IN  /\ (result.tileSource = << >>) <=> (result.error # << >>)
            /\ result.tileSource # << >> =>
                  /\ result.response.body # << >>
                  /\ result.opened = Len(declared)
            /\ result.opened < Len(declared) =>
                  /\ result.tileSource = << >>
                  /\ \E k \in DOMAIN result.error[1].message :
                        result.error[1].message[k] = declared[result.opened + 1]

\* the opening of the second level failed after the first was opened: the
\* call rejected and the adapter holds one array
C16_Witness ==
    \E i \in DOMAIN initResults :
        /\ initResults[i].opened = 1
        /\ initResults[i].tileSource = << >>
        /\ initResults[i].error # << >>
        /\ zarrArrays # << >>

\* C17: a call of initialize() whose descriptor fetch failed, whose body was
\* no JSON, or whose document lacks multiscales, its datasets or its axes
\* rejects and returns no tile source.
C17_BadDescriptorRejected ==
    \A i \in DOMAIN initResults :
        LET response == initResults[i].response
        IN  (\/ ~response.fetched
             \/ ~response.ok
             \/ response.body = << >>
             \/ ~response.body[1].multiscales
             \/ response.body[1].datasets = << >>
             \/ response.body[1].axes = << >>) =>
                /\ initResults[i].tileSource = << >>
                /\ initResults[i].error # << >>

\* C18: once a call of initialize() has settled, no step changes the list
\* of levels or the tile source, and an adapter whose first call failed
\* never becomes ready nor takes a tile request.
C18_TerminalStates ==
    [][initResults # << >> =>
          /\ zarrArrays' = zarrArrays
          /\ tileSource' = tileSource
          /\ initResults[1].tileSource = << >> =>
                (initPc' # "ready" /\ reqs' = reqs)]_vars

\* a request whose engine level has no stored level
InvalidLevel(req) ==
    Len(zarrArrays) - 1 - req.tile.level \notin 0 .. Len(zarrArrays) - 1

\* C19: a request for an engine level outside the pyramid is completed at
\* once by one failure callback, issues no region read and no
\* rasterization, and the step leaves the cache, the normalization state
\* and every other request as they were.
C19_InvalidLevelFailsOnlyTile ==
    [][\A req \in BagToSet(reqs') :
          (InvalidLevel(req) /\ CopiesIn(req, reqs') > CopiesIn(req, reqs)) =>
              /\ req.pc = "done"
              /\ req.reads = << >>
              /\ req.rasters = 0
              /\ Len(req.finishes) = 1
              /\ req.finishes[1].image = << >>
              /\ req.finishes[1].message \notin {<< >>, <<"">>}
              /\ reqs' = reqs (+) SetToBag({req})
              /\ UNCHANGED <<tileCache, minValue, maxValue, inserted>>]_vars

\* a request for a level beyond the pyramid failed while another request
\* was in flight, the cache holding a tile
C19_Witness ==
    /\ \E req \in Requests : InvalidLevel(req) /\ req.finishes # << >>
    /\ Pending # {}
    /\ tileCache # << >>
    /\ tileSource # << >>

\* the key of a request's tile
KeyOf(req) == CacheKey(req.tile.level, req.tile.x, req.tile.y)

\* C20: every cache miss issues its own region read and, once rasterized,
\* its own insertion; the cache never holds two entries for one key, the
\* entry of the key inserted last is the raster of that insertion, and
\* every completed request got its own completion callback.
C20_DuplicateFetchLastWins ==
    /\ \A i, j \in DOMAIN tileCache :
          tileCache[i].key = tileCache[j].key => i = j
    /\ inserted # << >> =>
          /\ CacheHas(tileCache, inserted[Len(inserted)])
          /\ CacheGet(tileCache, inserted[Len(inserted)]).id = Len(inserted)
    /\ \A req \in Requests :
          /\ (req.held = << >> /\ ~InvalidLevel(req)) => Len(req.reads) = 1
          /\ req.canvas # << >> =>
                /\ CopiesIn(req, reqs) = 1
                /\ inserted[req.canvas[1].id] = KeyOf(req)
          /\ req.pc = "done" => Len(req.finishes) = 1

\* two requests for one tile both missed, read, and inserted; both were
\* completed, and the cache holds one entry for the key, the later raster
C20_Witness ==
    \E a, b \in Requests :
        /\ a.tile = b.tile
        /\ a.canvas # << >> /\ b.canvas # << >>
        /\ a.canvas[1].id < b.canvas[1].id
        /\ a.finishes # << >> /\ b.finishes # << >>
        /\ b.canvas[1].id = Len(inserted)
        /\ CacheGet(tileCache, KeyOf(b)).id = b.canvas[1].id
        /\ Cardinality({i \in DOMAIN tileCache : tileCache[i].key = KeyOf(a)}) = 1

\* the requests a step adds or changes
Stepped == {req \in BagToSet(reqs') : CopiesIn(req, reqs') > CopiesIn(req, reqs)}

\* C21: a cache miss whose region read resolved and was rasterized puts its
\* raster into the cache in that very step, whatever else is in flight, and
\* success is signalled only for a raster that was inserted before.
C21_InsertThenSignal ==
    /\ [](\A req \in Requests :
            /\ (~req.hit /\ req.finishes # << >> /\ req.finishes[1].image # << >>) =>
                  /\ req.canvas # << >>
                  /\ req.canvas[1].id <= Len(inserted)
                  /\ inserted[req.canvas[1].id] = KeyOf(req)
                  /\ req.finishes[1].image = <<ToDataURL(req.canvas[1])>>
            /\ (req.rasters > 0 /\ req.errors = << >>) => req.canvas # << >>)
    /\ [][\A req \in Stepped :
            (req.canvas # << >> /\ (req.pc = "decode" \/ req.errors # << >>)) =>
                /\ req.finishes = << >> \/ req.finishes[1].image = << >>
                /\ CacheHas(tileCache', KeyOf(req))
                /\ CacheGet(tileCache', KeyOf(req)) = req.canvas[1]]_vars

\* a miss was rasterized, inserted and delivered while the cache, full, had
\* to evict, another request being in flight
C21_Witness ==
    /\ Len(inserted) > maxCacheSize
    /\ Pending # {}
    /\ \E req \in Requests :
          /\ ~req.hit
          /\ req.finishes # << >>
          /\ req.finishes[1].image # << >>

\* C22: the step in which a region read fails, and the .catch job that may
\* follow it, end the request with that single read issued, no
\* rasterization and no canvas, and leave the
\* cache and the normalization state as they were; any request made while
\* its key is not cached issues a region read of its own.
C22_FailedReadNoRetry ==
    /\ [](\A req \in Requests :
            (req.held = << >> /\ ~InvalidLevel(req)) => Len(req.reads) = 1)
    /\ [][\A req \in Stepped :
            (req.errors # << >> /\ req.reads # << >> /\ req.rasters = 0) =>
                    /\ req.pc \in {"rejected", "done"}
                    /\ Len(req.reads) = 1
                    /\ req.canvas = << >>
                    /\ UNCHANGED <<tileCache, minValue, maxValue, inserted>>]_vars

\* a region read failed, and a request for the same tile read and
\* rasterized it
C22_Witness ==
    \E failed, again \in Requests :
        /\ failed.tile = again.tile
        /\ failed.errors # << >> /\ failed.reads # << >> /\ failed.rasters = 0
        /\ again.held = << >>
        /\ Len(again.reads) = 1
        /\ again.canvas # << >>
        /\ ~CacheHas(tileCache, KeyOf(failed)) \/ CacheGet(tileCache, KeyOf(failed)) = again.canvas[1]

\* C23: a step that starts or completes a request served from the cache
\* leaves the cache, its order included, and the normalization state as
\* they were.
C23_HitLeavesCache ==
    [][(\E req \in Stepped : req.hit) =>
          UNCHANGED <<tileCache, minValue, maxValue, inserted>>]_vars

\* a request was served from a cache of two entries whose first entry is
\* the one it hit
C23_Witness ==
    /\ Len(tileCache) = 2
    /\ \E req \in Requests :
          /\ req.hit
          /\ req.finishes # << >>
          /\ tileCache[1].key = KeyOf(req)

\* C24: with auto-normalization on, every tile is mapped with the min and
\* max of its own buffer, whatever was rasterized before it.
C24_PerTileRange ==
    autoNormalize =>
        \A req \in Drawn :
            LET buffer == ReadResult(req)
            IN  DOMAIN buffer.data # {} =>
                    req.norm = <<JsOr(ScanMin(buffer), Num(0)),
                                 JsOr(ScanMax(buffer), Num(255))>>

\* C29: the raster of a tile is the same in every execution: it is the one
\* the adapter produces in the execution where that tile is the first it
\* rasterizes, whatever was rasterized before.
C29_RasterOrderIndependent ==
    \A req \in Drawn :
        req.canvas[1].pixels =
            DataToCanvas(ReadResult(req), req.tileWidth, req.tileHeight,
                         ConstructMinValue(optionsIn), ConstructMaxValue(optionsIn),
                         autoNormalize).canvas.pixels

\* C30: an insertion under a key the cache already holds leaves the set of
\* cached keys as it was.
C30_ReinsertKeepsKeys ==
    [][(inserted' # inserted /\ CacheHas(tileCache, inserted'[Len(inserted')])) =>
          {tileCache'[i].key : i \in DOMAIN tileCache'} =
              {tileCache[i].key : i \in DOMAIN tileCache}]_vars

-----------------------------------------------------------------------------
(* The drawing overlay *)

\* this step dispatches a pointer event of one of the types to the canvas
Dispatches(types) ==
    /\ dispatched' # dispatched
    /\ pointerEvent'.type \in types

\* C25: a pointer-up or pointer-cancel that finds a stroke in progress appends
\* it to the committed strokes when it has at least 2 points and drops it
\* otherwise, and every committed stroke has at least 2 points
C25_CommitNeedsTwoPoints ==
    /\ [](\A i \in 1 .. Len(strokes) : Len(strokes[i].points) >= 2)
    /\ [][Dispatches({"pointerup", "pointercancel"}) /\ liveStroke # << >>
            => /\ liveStroke' = << >>
               /\ strokes' = IF Len(liveStroke.points) >= 2
                                THEN Append(strokes, liveStroke)
                                ELSE strokes]_vars

\* a gesture of three events ended by pointer-cancel has committed a stroke
C25_Witness ==
    /\ dispatched = 3
    /\ pointerEvent.type = "pointercancel"
    /\ Len(strokes) = 1
    /\ liveStroke = << >>

\* the drawing canvas is in the page and takes the pointer events over it
Intercepts ==
    /\ overlayCanvas # << >>
    /\ overlayCanvas.attached
    /\ overlayCanvas.pointerEvents = "auto"

\* C26: the drawing canvas intercepts pointer events if and only if the
\* engine's mouse navigation is disabled, and once the overlay is destroyed
\* the engine's navigation is enabled
C26_OneConsumesGestures ==
    /\ Intercepts <=> ~mouseNavEnabled
    /\ (overlayCanvas # << >> /\ ~overlayCanvas.attached) => mouseNavEnabled

\* the overlay was destroyed while draw mode was on
C26_Witness ==
    /\ viewerPc = "unmounted"
    /\ overlayCanvas # << >>
    /\ overlayCanvas.pointerEvents = "auto"
    /\ ~overlayCanvas.attached
    /\ mouseNavEnabled

\* two image points no more than 0.5 image pixels apart in x and in y
Near(a, b) ==
    /\ Abs(a.x - b.x) <= MoveThreshold
    /\ Abs(a.y - b.y) <= MoveThreshold

\* each point of the stroke after the first is not near its predecessor
Spaced(stroke) ==
    \A i \in 2 .. Len(stroke.points) : ~Near(stroke.points[i], stroke.points[i - 1])

\* the image point under the pointer of the event dispatched in this step
PointerAt == CanvasToImage(pointerEvent'.x * Pixel, pointerEvent'.y * Pixel)

\* C27: in the stroke in progress and in every committed stroke each point
\* after the first is more than 0.5 image pixels from its predecessor in x or
\* in y, and a pointer-move to within 0.5 image pixels of the last recorded
\* point leaves the stroke in progress as it was
C27_PointsSpaced ==
    /\ []((liveStroke # << >> => Spaced(liveStroke))
            /\ \A i \in 1 .. Len(strokes) : Spaced(strokes[i]))
    /\ [][(/\ Dispatches({"pointermove"})
            /\ liveStroke # << >>
            /\ Near(PointerAt, liveStroke.points[Len(liveStroke.points)]))
            => liveStroke' = liveStroke /\ strokes' = strokes]_vars

\* a stroke in progress has two points, and the pointer-move after them,
\* exactly 0.5 image pixels away from the second, was not recorded
C27_Witness ==
    /\ dispatched = 3
    /\ pointerEvent.type = "pointermove"
    /\ liveStroke # << >>
    /\ Len(liveStroke.points) = 2
    /\ LET at == CanvasToImage(pointerEvent.x * Pixel, pointerEvent.y * Pixel)
           last == liveStroke.points[2]
       IN  at # last /\ Near(at, last)

\* image points at whole image pixels
ImagePoints == {Point(x * Pixel, y * Pixel) : x \in 0 .. 2, y \in 0 .. 2}

\* canvasToImage(imageToCanvas(x, y))
RoundTrip(p) ==
    LET c == ImageToCanvas(p.x, p.y)
    IN  CanvasToImage(c.x, c.y)

\* C28: whenever the overlay exists, canvasToImage(imageToCanvas(x, y)) gives
\* back (x, y) for every image point, also while the engine is animating
\* towards another pan/zoom
C28_RoundTripAlways ==
    drawingOverlay # "null" => \A p \in ImagePoints : RoundTrip(p) = p

\* the overlay's two states: no stroke in progress and no pointer held, or
\* a stroke in progress under a held pointer
Idle == liveStroke = << >> /\ ~isPointerDown
Drawing == liveStroke # << >> /\ isPointerDown

\* C31: the overlay is Idle or Drawing; a pointer-down in Idle leads to
\* Drawing with a one-point stroke carrying the current pen colour and width;
\* a pointer-up or pointer-cancel in Drawing leads to Idle; a pointer-move or
\* pointer-up in Idle changes neither the stroke in progress nor the
\* committed strokes
C31_IdleDrawing ==
    /\ [](overlayCanvas # << >> => Idle \/ Drawing)
    /\ [][Dispatches({"pointerdown"}) /\ Idle
            => /\ Drawing'
               /\ liveStroke' = [points |-> <<PointerAt>>, color |-> drawColor,
                                 lineWidth |-> drawLineWidth]]_vars
    /\ [][Dispatches({"pointerup", "pointercancel"}) /\ Drawing => Idle']_vars
    /\ [][Dispatches({"pointermove", "pointerup", "pointercancel"}) /\ Idle
            => UNCHANGED <<liveStroke, isPointerDown, strokes>>]_vars

\* a stroke was started with a pen other than the initial one
C31_Witness ==
    /\ Drawing
    /\ pointerEvent.type = "pointerdown"
    /\ liveStroke.color # "#FF4444"
    /\ liveStroke.lineWidth # 3
    /\ Len(liveStroke.points) = 1

\* the points are the first points of the stroke in progress after the step,
\* or the points of the stroke committed by it
KeptAfter(points) ==
    \/ /\ liveStroke' # << >>
       /\ Len(liveStroke'.points) >= Len(points)
       /\ SubSeq(liveStroke'.points, 1, Len(points)) = points
    \/ /\ Len(strokes') = Len(strokes) + 1
       /\ strokes'[Len(strokes')].points = points

\* C32: a pointer-down that arrives while a stroke with at least 2 points is
\* in progress does not discard the points recorded so far, so that the
\* gesture is committed as one stroke with all of its points
C32_SecondPointerKeepsPoints ==
    [][Dispatches({"pointerdown"}) /\ Drawing /\ Len(liveStroke.points) >= 2
        => KeptAfter(liveStroke.points)]_vars

\* C33: while the drawing overlay exists, drawMode is true if and only if
\* the drawing canvas intercepts pointer events and the engine's navigation
\* is disabled, whatever toggles were made before the overlay was created
C33_DrawModeAgrees ==
    drawingOverlay # "null" => (drawMode <=> (Intercepts /\ ~mouseNavEnabled))

\* C35: undoLastStroke removes the most recently committed stroke and keeps
\* the earlier ones in order, and changes nothing on an empty list;
\* clearAllStrokes leaves the list empty; neither changes the stroke in
\* progress
C35_UndoAndClear ==
    /\ [][UndoLastStroke
            => /\ Len(strokes') = (IF strokes = << >> THEN 0 ELSE Len(strokes) - 1)
               /\ \A i \in 1 .. Len(strokes') : strokes'[i] = strokes[i]
               /\ UNCHANGED <<liveStroke, isPointerDown>>]_vars
    /\ [][ClearAllStrokes
            => strokes' = << >> /\ UNCHANGED <<liveStroke, isPointerDown>>]_vars

\* two different strokes are committed: undo has a most recent stroke to
\* remove and an earlier one to keep
C35_Witness ==
    /\ Len(strokes) = 2
    /\ strokes[1] # strokes[2]
    /\ dispatched = MaxStrokeEvents

-----------------------------------------------------------------------------
(* The ROI list *)

\* C34: while the ROI overlay exists the list it draws equals roiList,
\* element for element and in order, from the moment it is created; an
\* addRoi with a zero or missing width or height changes neither list
C34_DrawnRoisFollowList ==
    /\ [](roiOverlay # "null" => DrawnRois = roiList)
    /\ [][(AddRoi /\ (Falsy(newRoi.width) \/ Falsy(newRoi.height)))
            => (roiList' = roiList /\ DrawnRois' = DrawnRois)]_vars

\* the overlay draws a list of two ROIs, the second one labelled by its number
C34_Witness ==
    /\ roiOverlay # "null"
    /\ Len(DrawnRois) = 2
    /\ DrawnRois[2].label = [text |-> "ROI ", n |-> 2]
    /\ Falsy(newRoi.width)


====
